---- MODULE Spec2Model ----
\* A model of src/src/board/web/twitter.go: the Twitter stream session
\* (NewTwitter, Start, Stop, Callback, the background receive loop) and the
\* pure filter predicate Filter.match.
EXTENDS Integers, Sequences, FiniteSets, TLC

VARIABLES
    built,      \* TRUE once NewTwitter has returned a *Twitter
    filter,     \* Twitter.filter
    cb,         \* Twitter.cb
    stream,     \* Twitter.stream: Nil or the id of a subscription
    newRes,     \* what the last NewTwitter call was given and what it returned
    streams,    \* the subscriptions the transport has opened, by id
    pc,         \* per caller thread: where it is inside Start / Stop
    last,       \* the last Start or Stop call that returned, and its result
    loops,      \* the goroutines launched by Start, by id
    handed,     \* every callback invocation made so far, in order
    panic,      \* "none", or the run-time panic that ended the process
    reg,        \* the function the last returned Callback call was given
    held,       \* per caller thread: the handle Stop read at its test
    mf, mu, mc, \* inputs of a direct application of Filter.match
    mres,       \* what mf.match(mu, mc) returned, "unset" before it is applied
    rres,       \* what receive's call mf.match(ToLower(mu), mc) returned
    mm,         \* the media entities of a raw message given to receive
    mimg        \* << >>, or <<l>> once receive built a record with Images l

vars == <<built, filter, cb, stream, newRes, streams, pc, last, loops,
          handed, panic, reg, held, mf, mu, mc, mres, rres, mm, mimg>>

sessVars == <<built, filter, cb, stream, newRes, streams, pc, last, loops,
              handed, panic, reg, held>>

matchVars == <<mf, mu, mc, mres, rres, mm, mimg>>

----------------------------------------------------------------------------
\* Bounds of the model.

\* Subscriptions the transport opens in one run.
MaxStreams == 2

\* Messages the transport delivers in one run, over all subscriptions.
MaxMsgs == 2

\* Longest author / word list of a filter drawn for Filter.match.
MaxList == 2

\* Most media entities of a raw message drawn for receive.
MaxMedia == 3

----------------------------------------------------------------------------
\* Strings are sequences of one-character strings.

Nil == "nil"

\* A nil *twitter.Stream; the subscriptions are numbered from 1.
NilStream == 0

\* A *Filter is << >> when nil, and <<f>> when it points to the Filter f.
NilFilter == << >>

\* strings.ToLower on one character of the alphabet used here.
Lower(ch) ==
    CASE ch = "A" -> "a"
      [] ch = "B" -> "b"
      [] OTHER -> ch

ToLower(s) == [i \in 1..Len(s) |-> Lower(s[i])]

\* strings.Contains(c, w): w occurs in c as a contiguous run.
Contains(c, w) ==
    \E i \in 0..(Len(c) - Len(w)) : SubSeq(c, i + 1, i + Len(w)) = w

\* Filter.match with the allow-list consulted before the deny-lists.
match_AllowFirst(f, u, c) ==
    IF Len(f.OnlyUsers) > 0
        /\ \E i \in 1..Len(f.OnlyUsers) : ToLower(f.OnlyUsers[i]) = u
    THEN TRUE
    ELSE IF Len(f.BlockedUsers) > 0
        /\ \E i \in 1..Len(f.BlockedUsers) : ToLower(f.BlockedUsers[i]) = u
    THEN FALSE
    ELSE IF Len(f.BlockedWords) > 0
        /\ \E i \in 1..Len(f.BlockedWords) : Contains(c, f.BlockedWords[i])
    THEN FALSE
    ELSE Len(f.OnlyUsers) = 0

\* Filter.match answering true whenever no deny-list fires, the allow-list
\* left unread.
match_AllowIgnored(f, u, c) ==
    IF Len(f.BlockedUsers) > 0
        /\ \E i \in 1..Len(f.BlockedUsers) : ToLower(f.BlockedUsers[i]) = u
    THEN FALSE
    ELSE IF Len(f.BlockedWords) > 0
        /\ \E i \in 1..Len(f.BlockedWords) : Contains(c, f.BlockedWords[i])
    THEN FALSE
    ELSE TRUE

\* Filter.match comparing the author-list entries as written, not lowercased.
match_EntriesAsWritten(f, u, c) ==
    IF Len(f.BlockedUsers) > 0
        /\ \E i \in 1..Len(f.BlockedUsers) : f.BlockedUsers[i] = u
    THEN FALSE
    ELSE IF Len(f.BlockedWords) > 0
        /\ \E i \in 1..Len(f.BlockedWords) : Contains(c, f.BlockedWords[i])
    THEN FALSE
    ELSE IF Len(f.OnlyUsers) > 0
    THEN \E i \in 1..Len(f.OnlyUsers) : f.OnlyUsers[i] = u
    ELSE TRUE

\* Filter.match reading an empty allow-list as "matches nothing".
match_EmptyAllowRejects(f, u, c) ==
    IF Len(f.BlockedUsers) > 0
        /\ \E i \in 1..Len(f.BlockedUsers) : ToLower(f.BlockedUsers[i]) = u
    THEN FALSE
    ELSE IF Len(f.BlockedWords) > 0
        /\ \E i \in 1..Len(f.BlockedWords) : Contains(c, f.BlockedWords[i])
    THEN FALSE
    ELSE \E i \in 1..Len(f.OnlyUsers) : ToLower(f.OnlyUsers[i]) = u

\* func (f *Filter) match(u, c string) bool
match(f, u, c) ==
    IF Len(f.BlockedUsers) > 0
        /\ \E i \in 1..Len(f.BlockedUsers) : ToLower(f.BlockedUsers[i]) = u
    THEN FALSE
    ELSE IF Len(f.BlockedWords) > 0
        /\ \E i \in 1..Len(f.BlockedWords) : Contains(c, f.BlockedWords[i])
    THEN FALSE
    ELSE IF Len(f.OnlyUsers) > 0
    THEN \E i \in 1..Len(f.OnlyUsers) : ToLower(f.OnlyUsers[i]) = u
    ELSE TRUE

\* receive collecting the URL of every media entity, whatever its kind.
RECURSIVE Images_AnyKind(_)
Images_AnyKind(media) ==
    IF Len(media) = 0 THEN << >>
    ELSE <<Head(media).MediaURLHttps>> \o Images_AnyKind(Tail(media))

\* The images receive collects: the URLs of the "photo" entities, in order.
RECURSIVE Images(_)
Images(media) ==
    IF Len(media) = 0 THEN << >>
    ELSE IF Head(media).Type = "photo"
         THEN <<Head(media).MediaURLHttps>> \o Images(Tail(media))
         ELSE Images(Tail(media))

\* The first half of receive: the filter test on (lowercased author, text).
receivePasses(f, x) ==
    IF f # NilFilter THEN match(f[1], ToLower(x.ScreenName), x.Text) ELSE TRUE

\* The *Tweet receive builds from a raw message.
BuildTweet(x) ==
    [ID |-> x.ID, User |-> x.ScreenName, Text |-> x.Text,
     UserName |-> x.Name, UserPhoto |-> x.ProfileImageURLHttps,
     Images |-> Images(x.Media)]

----------------------------------------------------------------------------
\* The inputs the session is driven with.

Callers == {1, 2}

Callbacks == {"A", "B"}

Creds == "creds"

MkFilter(kw, only, busers, bwords) ==
    [Language |-> << >>, Keywords |-> kw, OnlyUsers |-> only,
     BlockedUsers |-> busers, BlockedWords |-> bwords]

Ptr(f) == <<f>>

FBlock == MkFilter(<< <<"a">> >>, << >>, << <<"b">> >>, << >>)

FNoKeywords == MkFilter(<< >>, << >>, << >>, << >>)

SessionFilters == {NilFilter, Ptr(FNoKeywords), Ptr(FBlock)}

\* The messages the upstream sends, but for their ID.
Tweets ==
    { [ID |-> 0, ScreenName |-> <<"a">>, Text |-> <<"a">>, Name |-> <<"a">>,
       ProfileImageURLHttps |-> <<"a">>,
       Media |-> << [Type |-> "photo", MediaURLHttps |-> <<"a">>],
                    [Type |-> "video", MediaURLHttps |-> <<"b">>] >>],
      [ID |-> 0, ScreenName |-> <<"B">>, Text |-> <<"b">>, Name |-> <<"B">>,
       ProfileImageURLHttps |-> <<"b">>, Media |-> << >>] }

NoMsg ==
    [ID |-> 0, ScreenName |-> << >>, Text |-> << >>, Name |-> << >>,
     ProfileImageURLHttps |-> << >>, Media |-> << >>]

----------------------------------------------------------------------------
\* Helpers over the state.

LoopIds == 1..Len(loops)

StreamIds == 1..Len(streams)

RECURSIVE SumLen(_, _)
SumLen(ss, n) == IF n = 0 THEN 0 ELSE Len(ss[n].sent) + SumLen(ss, n - 1)

Delivered == SumLen(streams, Len(streams))

\* A loop is live from its launch until it has cleared the handle.
Live(l) == loops[l].pc # "done"

LiveLoops == {l \in LoopIds : Live(l)}

RECURSIVE SumAct(_, _)
SumAct(ls, n) == IF n = 0 THEN 0 ELSE ls[n].act + SumAct(ls, n - 1)

\* Callback invocations in progress.
InProgress == SumAct(loops, Len(loops))

Running == built /\ panic = "none"

----------------------------------------------------------------------------
\* Construction.

\* NewTwitter with the credentials verified before the arguments are checked.
newTwitterResult_AuthFirst(f, a, authOk) ==
    IF ~authOk
    THEN [f |-> f, a |-> a, err |-> "ErrAuth", sess |-> FALSE, auth |-> 1, sub |-> 0]
    ELSE IF a = Nil
    THEN [f |-> f, a |-> a, err |-> "ErrNoAuth", sess |-> FALSE, auth |-> 1, sub |-> 0]
    ELSE IF f = NilFilter \/ Len(f[1].Keywords) = 0
    THEN [f |-> f, a |-> a, err |-> "ErrEmptyFilter", sess |-> FALSE, auth |-> 1, sub |-> 0]
    ELSE [f |-> f, a |-> a, err |-> Nil, sess |-> TRUE, auth |-> 1, sub |-> 0]

\* What NewTwitter(timeout, f, a) returns, and the transport calls it makes:
\* auth counts Accounts.VerifyCredentials, sub counts Streams.Filter.
newTwitterResult(f, a, authOk) ==
    IF a = Nil
    THEN [f |-> f, a |-> a, err |-> "ErrNoAuth", sess |-> FALSE, auth |-> 0, sub |-> 0]
    ELSE IF f = NilFilter \/ Len(f[1].Keywords) = 0
    THEN [f |-> f, a |-> a, err |-> "ErrEmptyFilter", sess |-> FALSE, auth |-> 0, sub |-> 0]
    ELSE IF ~authOk
    THEN [f |-> f, a |-> a, err |-> "ErrAuth", sess |-> FALSE, auth |-> 1, sub |-> 0]
    ELSE [f |-> f, a |-> a, err |-> Nil, sess |-> TRUE, auth |-> 1, sub |-> 0]

NewTwitter(f, a, authOk) ==
    /\ ~built
    /\ panic = "none"
    /\ newRes' = newTwitterResult(f, a, authOk)
    /\ built' = newRes'.sess
    /\ filter' = IF newRes'.sess THEN f ELSE filter
    /\ UNCHANGED <<cb, stream, streams, pc, last, loops, handed, panic, reg>>
    /\ UNCHANGED matchVars
    /\ UNCHANGED held

----------------------------------------------------------------------------
\* Start.

\* Start without its guard.
AlreadyStarted_Never == FALSE

\* Start line 72: t.stream != nil.
AlreadyStarted == stream # NilStream

\* Start lines 72-74: a caller thread enters Start and tests the handle.
StartCheck(c) ==
    /\ Running
    /\ pc[c] = "idle"
    /\ IF AlreadyStarted
       THEN /\ pc' = pc
            /\ last' = [op |-> "Start", ret |-> "ErrAlreadyStarted"]
       ELSE /\ pc' = [pc EXCEPT ![c] = "s_open"]
            /\ last' = last
    /\ UNCHANGED <<built, filter, cb, stream, newRes, streams, loops, handed,
                   panic, reg>>
    /\ UNCHANGED matchVars
    /\ UNCHANGED held

\* A subscription as Streams.Filter returns it. sent lists the messages taken
\* off its channel; dropped records that receive found t.cb nil for one of them.
NewStream == [stopped |-> FALSE, closed |-> FALSE, sent |-> << >>, dropped |-> FALSE]

\* A goroutine as the go statement of Start launches it: the range over
\* x.stream.Messages is not evaluated yet.
NewLoop == [pc |-> "spawned", ch |-> NilStream, m |-> NoMsg, k |-> 0, reg0 |-> Nil,
            wr |-> FALSE, act |-> 0, f |-> Nil]

\* Start with the goroutine launched before the error of Streams.Filter is
\* looked at.
StartOpen_LaunchOnFail(c) ==
    /\ Running
    /\ pc[c] = "s_open"
    /\ \/ /\ Len(streams) < MaxStreams
          /\ streams' = Append(streams, NewStream)
          /\ stream' = Len(streams) + 1
          /\ loops' = Append(loops, NewLoop)
          /\ last' = [op |-> "Start", ret |-> Nil]
       \/ /\ last' = [op |-> "Start", ret |-> "ErrFilter"]
          /\ loops' = Append(loops, NewLoop)
          /\ UNCHANGED <<streams, stream>>
    /\ pc' = [pc EXCEPT ![c] = "idle"]
    /\ UNCHANGED <<built, filter, cb, newRes, handed, panic, reg>>
    /\ UNCHANGED matchVars
    /\ UNCHANGED held

\* Start lines 75-92. Streams.Filter either fails, and Start returns the
\* wrapped error, or opens a subscription s; then t.stream = s, the goroutine
\* is launched and Start returns nil.
StartOpen(c) ==
    /\ Running
    /\ pc[c] = "s_open"
    /\ \/ /\ Len(streams) < MaxStreams
          /\ streams' = Append(streams, NewStream)
          /\ stream' = Len(streams) + 1
          /\ loops' = Append(loops, NewLoop)
          /\ last' = [op |-> "Start", ret |-> Nil]
       \/ /\ last' = [op |-> "Start", ret |-> "ErrFilter"]
          /\ UNCHANGED <<streams, stream, loops>>
    /\ pc' = [pc EXCEPT ![c] = "idle"]
    /\ UNCHANGED <<built, filter, cb, newRes, handed, panic, reg>>
    /\ UNCHANGED matchVars
    /\ UNCHANGED held

----------------------------------------------------------------------------
\* Stop.

\* Stop without its guard.
StopSeesStream_Always == TRUE

\* Stop line 64: t.stream != nil.
StopSeesStream == stream # NilStream

\* Stop line 64: a caller thread enters Stop and tests the handle.
StopCheck(c) ==
    /\ Running
    /\ pc[c] = "idle"
    /\ IF StopSeesStream
       THEN /\ pc' = [pc EXCEPT ![c] = "p_term"]
            /\ held' = [held EXCEPT ![c] = stream]
            /\ last' = last
       ELSE /\ pc' = pc
            /\ held' = held
            /\ last' = [op |-> "Stop", ret |-> "noop"]
    /\ UNCHANGED <<built, filter, cb, stream, newRes, streams, loops, handed,
                   panic, reg>>
    /\ UNCHANGED matchVars

\* Stop with an assignment clearing the handle after the terminate call.
StoppedHandle_Cleared == NilStream

\* Stop lines 63-67 hold no assignment to t.stream: the handle when Stop
\* returns is the one it found.
StoppedHandle == stream

\* Stop line 65: the subscription is told to end.  Lines 64 and 65 read
\* t.stream without synchronisation: the call goes through the value read
\* again at line 65, or through the one line 64 read when the build keeps it
\* in a register.  A nil receiver makes Stream.Stop panic.
StopTerm(c) ==
    /\ Running
    /\ pc[c] = "p_term"
    /\ \E h \in {stream, held[c]} :
          IF h = NilStream
          THEN /\ panic' = "Stop: nil stream"
               /\ UNCHANGED <<stream, streams, pc, last, held>>
          ELSE /\ streams' = [streams EXCEPT ![h].stopped = TRUE]
               /\ stream' = StoppedHandle
               /\ pc' = [pc EXCEPT ![c] = "idle"]
               /\ held' = [held EXCEPT ![c] = NilStream]
               /\ last' = [op |-> "Stop",
                           ret |-> IF h = stream THEN "signalled" ELSE "stale"]
               /\ panic' = panic
    /\ UNCHANGED <<built, filter, cb, newRes, loops, handed, reg>>
    /\ UNCHANGED matchVars

----------------------------------------------------------------------------
\* Callback.

\* Callback keeping a callback that is already registered.
CallbackStore_KeepFirst(f) == IF cb = Nil THEN f ELSE cb

\* Callback line 122: the value t.cb holds after Callback(f).
CallbackStore(f) == f

\* The loop is inside receive, between taking the message and the call of t.cb.
Processing(l) == loops[l].pc \in {"chk", "call"}

Callback(c, f) ==
    /\ Running
    /\ pc[c] = "idle"
    /\ cb' = CallbackStore(f)
    /\ reg' = f
    /\ loops' = [l \in LoopIds |->
                    IF Processing(l) THEN [loops[l] EXCEPT !.wr = TRUE]
                    ELSE loops[l]]
    /\ UNCHANGED <<built, filter, stream, newRes, streams, pc, last, handed,
                   panic>>
    /\ UNCHANGED matchVars
    /\ UNCHANGED held

----------------------------------------------------------------------------
\* The transport.

\* The subscription's Messages channel closes: the upstream ended the stream,
\* or the subscription was told to end.
TransportClose(s) ==
    /\ Running
    /\ s \in StreamIds
    /\ ~streams[s].closed
    /\ streams' = [streams EXCEPT ![s].closed = TRUE]
    /\ UNCHANGED <<built, filter, cb, stream, newRes, pc, last, loops, handed,
                   panic, reg>>
    /\ UNCHANGED matchVars
    /\ UNCHANGED held

----------------------------------------------------------------------------
\* The goroutine of Start, lines 86-91, and receive, lines 124-148.

\* The goroutine starts: x.stream.Messages is evaluated once, for the range.
LoopRange(l) ==
    /\ Running
    /\ l \in LoopIds
    /\ loops[l].pc = "spawned"
    /\ IF stream = NilStream
       THEN /\ panic' = "loop: nil stream"
            /\ loops' = loops
       ELSE /\ loops' = [loops EXCEPT ![l].pc = "recv", ![l].ch = stream]
            /\ panic' = panic
    /\ UNCHANGED <<built, filter, cb, stream, newRes, streams, pc, last, handed,
                   reg>>
    /\ UNCHANGED matchVars
    /\ UNCHANGED held

\* receive handing every message on, whatever the filter says.
receiveDrops_Never(x) == FALSE

\* receive lines 125-129: the message is dropped when the filter rejects it.
receiveDrops(x) == ~receivePasses(filter, x)

\* receive returns and the range waits for the next message.
BackToRecv(lp) ==
    [lp EXCEPT !.pc = "recv", !.m = NoMsg, !.k = 0, !.reg0 = Nil, !.wr = FALSE,
               !.f = Nil]

\* The upstream numbers the messages it sends: the ID of the next one.
NextID == Delivered + 1

\* Start lines 87-88 and receive lines 125-144: the range takes the next
\* message off the channel, q.Handle enters receive, the filter is applied
\* and the record built.
LoopRecv(l, t) ==
    LET m == [t EXCEPT !.ID = NextID] IN
    /\ Running
    /\ l \in LoopIds
    /\ loops[l].pc = "recv"
    /\ ~streams[loops[l].ch].closed
    /\ Delivered < MaxMsgs
    /\ streams' = [streams EXCEPT ![loops[l].ch].sent = Append(@, m)]
    /\ loops' = [loops EXCEPT ![l] =
                    IF receiveDrops(m) THEN BackToRecv(@)
                    ELSE [@ EXCEPT !.pc = "chk", !.m = m,
                                   !.k = Len(streams[loops[l].ch].sent) + 1,
                                   !.reg0 = reg, !.wr = FALSE]]
    /\ UNCHANGED <<built, filter, cb, stream, newRes, pc, last, handed, panic,
                   reg>>
    /\ UNCHANGED matchVars
    /\ UNCHANGED held

\* The goroutine leaving the handle as it is.
ClearedHandle_Keep == stream

\* Start line 90: x.stream = nil.
ClearedHandle == NilStream

\* Start lines 87-90: the range finds the channel closed and the goroutine
\* clears the handle.
LoopClear(l) ==
    /\ Running
    /\ l \in LoopIds
    /\ loops[l].pc = "recv"
    /\ streams[loops[l].ch].closed
    /\ stream' = ClearedHandle
    /\ loops' = [loops EXCEPT ![l].pc = "done"]
    /\ UNCHANGED <<built, filter, cb, newRes, streams, pc, last, handed, panic,
                   reg>>
    /\ UNCHANGED matchVars
    /\ UNCHANGED held

\* receive line 145: t.cb != nil.
ReceiveCheckCb(l) ==
    /\ Running
    /\ l \in LoopIds
    /\ loops[l].pc = "chk"
    /\ loops' = [loops EXCEPT ![l] =
                    IF cb # Nil THEN [@ EXCEPT !.pc = "call", !.f = cb]
                    ELSE BackToRecv(@)]
    /\ streams' = IF cb # Nil THEN streams
                  ELSE [streams EXCEPT ![loops[l].ch].dropped = TRUE]
    /\ UNCHANGED <<built, filter, cb, stream, newRes, pc, last, handed, panic,
                   reg>>
    /\ UNCHANGED matchVars
    /\ UNCHANGED held

\* The loop going on while the callback it invoked is still running.
AfterInvoke_Async(lp) == BackToRecv(lp)

\* receive line 146 is a plain call: the loop waits for the callback to return.
AfterInvoke(lp) == [lp EXCEPT !.pc = "incb"]

\* receive line 146: t.cb is called with the record.  Lines 145 and 146 read
\* t.cb without synchronisation: the function called is the value read again
\* at line 146, or the one line 145 read when the build keeps it in a
\* register.  Calling a nil function panics.
ReceiveCall(l) ==
    /\ Running
    /\ l \in LoopIds
    /\ loops[l].pc = "call"
    /\ \E g \in {cb, loops[l].f} :
          IF g = Nil
          THEN /\ panic' = "receive: nil cb"
               /\ UNCHANGED <<loops, handed>>
          ELSE /\ handed' = Append(handed,
                       [s |-> loops[l].ch, k |-> loops[l].k, cb |-> g,
                        r |-> BuildTweet(loops[l].m)])
               /\ loops' = [loops EXCEPT ![l] =
                               [AfterInvoke(@) EXCEPT !.act = @ + 1, !.f = Nil]]
               /\ panic' = panic
    /\ UNCHANGED <<built, filter, cb, stream, newRes, streams, pc, last, reg>>
    /\ UNCHANGED matchVars
    /\ UNCHANGED held

\* The callback returns, and with it receive and q.Handle.
CallbackReturn(l) ==
    /\ Running
    /\ l \in LoopIds
    /\ loops[l].act > 0
    /\ loops' = [loops EXCEPT ![l] =
                    IF @.pc = "incb" THEN [BackToRecv(@) EXCEPT !.act = @ - 1]
                    ELSE [@ EXCEPT !.act = @ - 1]]
    /\ UNCHANGED <<built, filter, cb, stream, newRes, streams, pc, last, handed,
                   panic, reg>>
    /\ UNCHANGED matchVars
    /\ UNCHANGED held

----------------------------------------------------------------------------
\* The session.

NoResult == [f |-> NilFilter, a |-> Nil, err |-> "none", sess |-> FALSE, auth |-> 0, sub |-> 0]

MatchIdle ==
    /\ mf = FBlock
    /\ mu = << >>
    /\ mc = << >>
    /\ mres = "unset"
    /\ rres = "unset"
    /\ mm = << >>
    /\ mimg = << >>

SessInit ==
    /\ built = FALSE
    /\ filter = NilFilter
    /\ cb = Nil
    /\ stream = NilStream
    /\ newRes = NoResult
    /\ streams = << >>
    /\ pc = [c \in Callers |-> "idle"]
    /\ last = [op |-> "none", ret |-> "none"]
    /\ loops = << >>
    /\ handed = << >>
    /\ panic = "none"
    /\ reg = Nil
    /\ held = [c \in Callers |-> NilStream]

Init == SessInit /\ MatchIdle

\* The values the racing threads give Callback: one function, and nil.  Which
\* of two functions ends up registered is followed with one caller thread.
ConcCallbacks == {"A", Nil}

NextConc ==
    \/ \E f \in SessionFilters, a \in {Nil, Creds}, ok \in BOOLEAN : NewTwitter(f, a, ok)
    \/ \E c \in Callers : StartCheck(c)
    \/ \E c \in Callers : StartOpen(c)
    \/ \E c \in Callers : StopCheck(c)
    \/ \E c \in Callers : StopTerm(c)
    \/ \E c \in Callers, f \in ConcCallbacks : Callback(c, f)
    \/ \E s \in StreamIds : TransportClose(s)
    \/ \E l \in LoopIds : LoopRange(l)
    \/ \E l \in LoopIds, m \in Tweets : LoopRecv(l, m)
    \/ \E l \in LoopIds : LoopClear(l)
    \/ \E l \in LoopIds : ReceiveCheckCb(l)
    \/ \E l \in LoopIds : ReceiveCall(l)
    \/ \E l \in LoopIds : CallbackReturn(l)

\* The session with two caller threads, each inside Start, Stop or Callback
\* at any time.
SpecConc == Init /\ [][NextConc]_vars

\* The session driven by one caller thread: its calls follow one another.
Next ==
    \/ \E f \in SessionFilters, a \in {Nil, Creds}, ok \in BOOLEAN : NewTwitter(f, a, ok)
    \/ StartCheck(1)
    \/ StartOpen(1)
    \/ StopCheck(1)
    \/ StopTerm(1)
    \/ \E f \in Callbacks \cup {Nil} : Callback(1, f)
    \/ \E s \in StreamIds : TransportClose(s)
    \/ \E l \in LoopIds : LoopRange(l)
    \/ \E l \in LoopIds, m \in Tweets : LoopRecv(l, m)
    \/ \E l \in LoopIds : LoopClear(l)
    \/ \E l \in LoopIds : ReceiveCheckCb(l)
    \/ \E l \in LoopIds : ReceiveCall(l)
    \/ \E l \in LoopIds : CallbackReturn(l)

Spec == Init /\ [][Next]_vars

\* A step of the goroutine l that waits for nothing outside the process: the
\* evaluation of the range, the exit on a closed channel, and the two halves
\* of the callback test of receive.
LoopStep(l) ==
    \/ LoopRange(l)
    \/ LoopClear(l)
    \/ ReceiveCheckCb(l)
    \/ ReceiveCall(l)

\* The transport closes the channel of a subscription told to end.
TransportCloseStopped(s) ==
    /\ s \in StreamIds
    /\ streams[s].stopped
    /\ TransportClose(s)

\* The Go scheduler runs every runnable goroutine; every callback returns;
\* the transport closes the channel after a terminate signal.
Fairness ==
    /\ \A l \in 1..MaxStreams : WF_vars(LoopStep(l))
    /\ \A l \in 1..MaxStreams : WF_vars(CallbackReturn(l))
    /\ \A s \in 1..MaxStreams : WF_vars(TransportCloseStopped(s))

\* The one-caller session under fair scheduling.
SpecLive == Init /\ [][Next]_vars /\ Fairness

----------------------------------------------------------------------------
\* Filter.match applied to inputs drawn from bounded sets.

\* All sequences of at most n elements of pool.
ListsOf(pool, n) == UNION {[1..k -> pool] : k \in 0..n}

UserPool == { <<"A", "b">>, <<"b">> }

WordPool == { <<"b">>, <<"a", "b">> }

Authors == { <<"a", "b">>, <<"A", "b">>, <<"b">>, <<"B">>, <<"a">> }

Texts == { << >>, <<"a">>, <<"a", "b">>, <<"b", "a">>, <<"A", "B">> }

\* The keyword and language lists of the filters match is applied under:
\* <<Keywords, Language>>.  match reads neither.
KeywordLangs ==
    { << << <<"a">> >>, << >> >>,
      << << <<"b">>, <<"a">> >>, << <<"a">> >> >>,
      << << >>, << <<"b">> >> >> }

MatchFilters ==
    { [MkFilter(kl[1], only, busers, bwords) EXCEPT !.Language = kl[2]] :
        kl \in KeywordLangs,
        only \in ListsOf(UserPool, MaxList),
        busers \in ListsOf(UserPool, MaxList),
        bwords \in ListsOf(WordPool, MaxList) }

Res(b) == IF b THEN "true" ELSE "false"

InitMatch ==
    /\ SessInit
    /\ mf \in MatchFilters
    /\ mu \in Authors
    /\ mc \in Texts
    /\ mres = "unset"
    /\ rres = "unset"
    /\ mm = << >>
    /\ mimg = << >>

\* match called with the author as given.
ApplyMatch ==
    /\ mres = "unset"
    /\ mres' = Res(match(mf, mu, mc))
    /\ UNCHANGED <<mf, mu, mc, rres, mm, mimg>>
    /\ UNCHANGED sessVars

\* match called as receive line 126 calls it, with the author lowercased.
ApplyReceiveMatch ==
    /\ rres = "unset"
    /\ rres' = Res(match(mf, ToLower(mu), mc))
    /\ UNCHANGED <<mf, mu, mc, mres, mm, mimg>>
    /\ UNCHANGED sessVars

NextMatch == ApplyMatch \/ ApplyReceiveMatch

SpecMatch == InitMatch /\ [][NextMatch]_vars

----------------------------------------------------------------------------
\* The record receive builds, for raw messages whose media are drawn from a
\* bounded set.

\* The media entities a raw message may carry.
MediaPool ==
    { [Type |-> "photo", MediaURLHttps |-> <<"a">>],
      [Type |-> "photo", MediaURLHttps |-> <<"b">>],
      [Type |-> "video", MediaURLHttps |-> <<"c">>],
      [Type |-> "animated_gif", MediaURLHttps |-> <<"d">>] }

\* A raw message with the media entities media, from an author no filter of
\* the session rejects.
RawWith(media) ==
    [ID |-> 1, ScreenName |-> <<"a">>, Text |-> <<"a">>, Name |-> <<"a">>,
     ProfileImageURLHttps |-> <<"a">>, Media |-> media]

InitImages ==
    /\ SessInit
    /\ mf = FBlock
    /\ mu = << >>
    /\ mc = << >>
    /\ mres = "unset"
    /\ rres = "unset"
    /\ mm \in ListsOf(MediaPool, MaxMedia)
    /\ mimg = << >>

\* receive lines 130-144 on the raw message: the record is built.
ApplyReceiveImages ==
    /\ mimg = << >>
    /\ mimg' = << BuildTweet(RawWith(mm)).Images >>
    /\ UNCHANGED <<mf, mu, mc, mres, rres, mm>>
    /\ UNCHANGED sessVars

NextImages == ApplyReceiveImages

SpecImages == InitImages /\ [][NextImages]_vars

----------------------------------------------------------------------------
\* The claims.

StartRet(r) == [op |-> "Start", ret |-> r]

StopRet(r) == [op |-> "Stop", ret |-> r]

\* C1: a Start that finds the handle present returns ErrAlreadyStarted, opens
\* no subscription, launches no loop and leaves the handle as it is; with
\* one caller thread, at most one loop is ever live, and exactly one while the
\* handle is present.
C1_StartRejected ==
    [][ /\ \A c \in Callers :
            (StartCheck(c) /\ stream # NilStream) =>
                /\ last' = StartRet("ErrAlreadyStarted")
                /\ UNCHANGED <<pc, stream, streams, loops>>
        /\ Cardinality(LiveLoops') <= 1
        /\ stream' # NilStream => Cardinality(LiveLoops') = 1 ]_vars

\* A second Start was rejected while the one loop of the first was live.
C1_Witness ==
    /\ last = StartRet("ErrAlreadyStarted")
    /\ stream # NilStream
    /\ Len(streams) = 1
    /\ Cardinality(LiveLoops) = 1

\* Some subscription was told to end by Stop and its loop has since seen the
\* closure and cleared the handle.
Cycled ==
    \E l \in LoopIds : loops[l].pc = "done" /\ streams[loops[l].ch].stopped

\* C2: when the loop of a stopped subscription sees the closure, the session
\* is Idle (handle absent, no loop live); a Start made after that is not
\* rejected, and when the transport opens the subscription it stores the new
\* handle, returns nil and launches exactly one loop.
C2_RestartAfterStop ==
    [][ /\ \A l \in LoopIds :
            (LoopClear(l) /\ streams[loops[l].ch].stopped) =>
                (stream' = NilStream /\ LiveLoops' = {})
        /\ \A c \in Callers :
            (Cycled /\ stream = NilStream /\ StartCheck(c)) => pc'[c] = "s_open"
        /\ \A c \in Callers :
            (Cycled /\ StartOpen(c) /\ Len(streams') > Len(streams)) =>
                /\ last' = StartRet(Nil)
                /\ stream' = Len(streams')
                /\ Len(loops') = Len(loops) + 1
                /\ LiveLoops' = {Len(loops')} ]_vars

\* Start, Stop, closure seen, and a second Start has succeeded.
C2_Witness ==
    /\ Cycled
    /\ last = StartRet(Nil)
    /\ stream = 2
    /\ LiveLoops = {2}

\* C3: when Streams.Filter fails, Start returns the wrapped error, which is
\* not ErrAlreadyStarted, the handle stays absent and no loop is launched;
\* the next Start is not rejected as already started.
C3_OpenFailure ==
    [][ /\ \A c \in Callers :
            (StartOpen(c) /\ Len(streams') = Len(streams)) =>
                /\ last' = StartRet("ErrFilter")
                /\ last'.ret # "ErrAlreadyStarted"
                /\ stream = NilStream
                /\ stream' = NilStream
                /\ loops' = loops
                /\ pc'[c] = "idle"
        /\ \A c \in Callers :
            (last = StartRet("ErrFilter") /\ StartCheck(c)) => pc'[c] = "s_open" ]_vars

\* A Start failed to open the subscription and a later Start has passed the
\* guard.
C3_Witness ==
    /\ last = StartRet("ErrFilter")
    /\ \E c \in Callers : pc[c] = "s_open"
    /\ stream = NilStream
    /\ loops = << >>

\* C4: Stop on an Idle session does nothing: no terminate signal, no panic,
\* and the handle, the callback, the filter and everything else a following
\* Start reads are as they were.
C4_StopIdleNoop ==
    [][ \A c \in Callers :
            (StopCheck(c) /\ stream = NilStream) =>
                /\ last' = StopRet("noop")
                /\ UNCHANGED <<built, filter, cb, stream, newRes, streams, pc,
                               loops, handed, panic, reg>> ]_vars

\* Stop returned without doing anything and a following Start has passed
\* the guard.
C4_Witness ==
    /\ last = StopRet("noop")
    /\ stream = NilStream
    /\ \E c \in Callers : pc[c] = "s_open"

\* C5: NewTwitter with nil credentials returns ErrNoAuth; with credentials
\* and a nil filter or a filter without keywords it returns ErrEmptyFilter;
\* either way no session is returned and the transport is not called.
C5_ConfigErrors ==
    /\ (newRes.err # "none" /\ newRes.a = Nil) =>
            /\ newRes.err = "ErrNoAuth"
            /\ ~newRes.sess /\ ~built
            /\ newRes.auth = 0 /\ newRes.sub = 0
    /\ (newRes.err # "none" /\ newRes.a # Nil
            /\ (newRes.f = NilFilter \/ Len(newRes.f[1].Keywords) = 0)) =>
            /\ newRes.err = "ErrEmptyFilter"
            /\ ~newRes.sess /\ ~built
            /\ newRes.auth = 0 /\ newRes.sub = 0

\* NewTwitter was given credentials and a filter without keywords.
C5_Witness ==
    /\ newRes.err = "ErrEmptyFilter"
    /\ newRes.a = Creds
    /\ newRes.f = Ptr(FNoKeywords)

\* C6: a message whose processing began after the last Callback call
\* returned, with no Callback call since, is handed to the function that call
\* registered and to no other; no message is handed over twice.
C6_LastCallbackWins ==
    [][ /\ \A l \in LoopIds :
            (ReceiveCall(l) /\ Len(handed') > Len(handed) /\ ~loops[l].wr) =>
                handed'[Len(handed')].cb = loops[l].reg0
        /\ \A i, j \in 1..Len(handed') :
            (handed'[i].s = handed'[j].s /\ handed'[i].k = handed'[j].k) => i = j ]_vars

\* A was invoked for an earlier message; B was registered before the current
\* message was taken and is the one being invoked for it.
C6_Witness ==
    /\ \E i \in 1..Len(handed) : handed[i].cb = "A"
    /\ \E l \in LoopIds :
        /\ loops[l].pc = "incb"
        /\ loops[l].reg0 = "B"
        /\ ~loops[l].wr
        /\ handed[Len(handed)].cb = "B"
        /\ handed[Len(handed)].k = loops[l].k

\* C7: at most one invocation of the callback is in progress.
C7_OneInvocation == InProgress <= 1

\* The filter of the session applied to a raw message, as receive applies it.
PassesFilter(m) == match(filter[1], ToLower(m.ScreenName), m.Text)

\* The messages of subscription s that receive has finished with or has
\* handed over.
Processed(s) ==
    IF \E l \in LoopIds : loops[l].ch = s /\ Processing(l)
    THEN SubSeq(streams[s].sent, 1, Len(streams[s].sent) - 1)
    ELSE streams[s].sent

IsOf(s, e) == e.s = s

\* The records handed to the callback for subscription s, in order.
HandedOf(s) ==
    LET Mine(e) == IsOf(s, e)
        hs == SelectSeq(handed, Mine)
    IN  [i \in 1..Len(hs) |-> hs[i].r]

\* The records of the messages of subscription s that pass the filter.
Expected(s) ==
    LET ps == SelectSeq(Processed(s), PassesFilter)
    IN  [i \in 1..Len(ps) |-> BuildTweet(ps[i])]

InOrder == \A s \in StreamIds : ~streams[s].dropped => HandedOf(s) = Expected(s)

\* C8: as long as receive never found the callback absent, the records handed
\* over for a subscription are those of its messages that pass the filter, in
\* the order the messages were taken off the channel; and while an invocation
\* of the callback is in progress its loop waits for it to return: the message
\* it was invoked for is still the last one taken off the channel.
C8_OrderedDispatch ==
    /\ InOrder
    /\ \A l \in LoopIds :
        loops[l].act > 0 =>
            /\ loops[l].pc = "incb"
            /\ loops[l].k = Len(streams[loops[l].ch].sent)

\* Two messages of one subscription were handed over, the second one is still
\* with the callback.
C8_Witness ==
    \E s \in StreamIds :
        /\ ~streams[s].dropped
        /\ Len(HandedOf(s)) = 2
        /\ HandedOf(s)[1].ID < HandedOf(s)[2].ID
        /\ InProgress = 1

\* C9: a message the filter rejects, and a message for which receive finds no
\* callback, lead to no invocation and no panic, leave the handle, the
\* callback and the filter alone, and the loop waits for the next message;
\* every record handed over passed the filter.
C9_SilentDrop ==
    [][ /\ \A l \in LoopIds, t \in Tweets :
            (LoopRecv(l, t) /\ ~PassesFilter(t)) =>
                /\ handed' = handed /\ panic' = "none"
                /\ UNCHANGED <<stream, cb, filter>>
                /\ loops'[l].pc = "recv" /\ loops'[l].act = 0
        /\ \A l \in LoopIds :
            (ReceiveCheckCb(l) /\ cb = Nil) =>
                /\ handed' = handed /\ panic' = "none"
                /\ UNCHANGED <<stream, cb, filter>>
                /\ loops'[l].pc = "recv" /\ loops'[l].act = 0
        /\ \A i \in 1..Len(handed') :
            match(filter'[1], ToLower(handed'[i].r.User), handed'[i].r.Text) ]_vars

\* One message was rejected by the filter and one found no callback; nothing
\* was handed over and the loop waits for the next message.
C9_Witness ==
    \E s \in StreamIds :
        /\ streams[s].dropped
        /\ \E k \in 1..Len(streams[s].sent) : ~PassesFilter(streams[s].sent[k])
        /\ handed = << >>
        /\ panic = "none"
        /\ \E l \in LoopIds : loops[l].ch = s /\ loops[l].pc = "recv"

\* The author a, whatever its letter case, is in the blocked-authors list of f,
\* or an entry of its blocked-words list occurs in the text c.
Denied(f, a, c) ==
    \/ \E i \in 1..Len(f.BlockedUsers) : ToLower(f.BlockedUsers[i]) = ToLower(a)
    \/ \E i \in 1..Len(f.BlockedWords) : Contains(c, f.BlockedWords[i])

Allowed(f, a) ==
    \E i \in 1..Len(f.OnlyUsers) : ToLower(f.OnlyUsers[i]) = ToLower(a)

\* An entry of the blocked-words list of f occurs in the text c.
WordDenied(f, c) ==
    \E i \in 1..Len(f.BlockedWords) : Contains(c, f.BlockedWords[i])

\* C10 as stated: for every author and text given to match, a blocked author
\* or a blocked word makes it return false, also when the author is in the
\* allowed-authors list.
C10_DenyDominatesAnyAuthor ==
    (mres # "unset" /\ Denied(mf, mu, mc)) => mres = "false"

\* C10 as the code has it: a blocked author or a blocked word makes match
\* return false, also when the author is in the allowed-authors list, for the
\* call receive makes, whatever the case of the author, and for a direct call
\* with a lowercased author; a blocked word makes it return false whatever
\* the author argument.
C10_DenyDominates ==
    /\ (rres # "unset" /\ Denied(mf, mu, mc)) => rres = "false"
    /\ (mres # "unset" /\ mu = ToLower(mu) /\ Denied(mf, mu, mc)) => mres = "false"
    /\ (mres # "unset" /\ WordDenied(mf, mc)) => mres = "false"

\* match was applied, both ways, to a lowercased author who is blocked and allowed.
C10_Witness ==
    /\ mu = ToLower(mu)
    /\ \E i \in 1..Len(mf.BlockedUsers) : ToLower(mf.BlockedUsers[i]) = mu
    /\ Allowed(mf, mu)
    /\ rres = "false"
    /\ mres = "false"

\* The filter f has a non-empty allowed-authors list and empty deny-lists.
AllowOnly(f) ==
    /\ Len(f.OnlyUsers) > 0
    /\ Len(f.BlockedUsers) = 0
    /\ Len(f.BlockedWords) = 0

\* C11 as stated: with a non-empty allowed-authors list and both deny-lists
\* empty, match returns true exactly when the author it is given is in the
\* allowed-authors list, whatever the text.
C11_AllowListExclusiveAnyAuthor ==
    (mres # "unset" /\ AllowOnly(mf)) => (mres = "true" <=> Allowed(mf, mu))

\* C11 as the code has it: with a non-empty allowed-authors list and both
\* deny-lists empty, match returns true exactly when the author is in the
\* allowed-authors list, whatever the text, for the call receive makes,
\* whatever the case of the author, and for a direct call with a lowercased
\* author; a direct call with a mixed-case author returns false.
C11_AllowListExclusive ==
    /\ (rres # "unset" /\ AllowOnly(mf)) => (rres = "true" <=> Allowed(mf, mu))
    /\ (mres # "unset" /\ mu = ToLower(mu) /\ AllowOnly(mf)) =>
            (mres = "true" <=> Allowed(mf, mu))
    /\ (mres # "unset" /\ mu # ToLower(mu) /\ AllowOnly(mf)) => mres = "false"

\* match was applied, both ways, under an allow-list that does not hold the
\* lowercased author, on a non-empty text: both calls returned false.
C11_Witness ==
    /\ AllowOnly(mf)
    /\ mu = ToLower(mu)
    /\ ~Allowed(mf, mu)
    /\ Len(mc) > 0
    /\ rres = "false"
    /\ mres = "false"

\* The filter decision with authors compared without regard to letter case.
CaseBlind(f, a, c) ==
    /\ ~Denied(f, a, c)
    /\ (Len(f.OnlyUsers) > 0 => Allowed(f, a))

\* C12 as stated: match gives the same result for two author arguments that
\* differ only in letter case, here the author as given and its lowercased
\* form.
C12_CaseInsensitive ==
    (mres # "unset" /\ rres # "unset") => mres = rres

\* C12 as the code has it: the call receive makes, with the author lowercased,
\* decides without regard to the letter case of the author or of the list
\* entries, and so does a direct call with a lowercased author; a direct call
\* with a mixed-case author equals no entry of either author list, so only
\* the blocked words and the emptiness of the allow-list decide.
C12_CaseInsensitiveViaReceive ==
    /\ rres # "unset" => rres = Res(CaseBlind(mf, mu, mc))
    /\ (mres # "unset" /\ mu = ToLower(mu)) => mres = Res(CaseBlind(mf, mu, mc))
    /\ (mres # "unset" /\ mu # ToLower(mu)) =>
            mres = Res(~WordDenied(mf, mc) /\ Len(mf.OnlyUsers) = 0)

\* A mixed-case author who is in the allow-list and not denied: receive's call
\* accepted it, the direct call rejected it.
C12_Witness ==
    /\ mu # ToLower(mu)
    /\ Allowed(mf, mu)
    /\ ~Denied(mf, mu, mc)
    /\ rres = "true"
    /\ mres = "false"

\* The filter f constrains neither authors nor words.
Unconstrained(f) ==
    /\ Len(f.OnlyUsers) = 0
    /\ Len(f.BlockedUsers) = 0
    /\ Len(f.BlockedWords) = 0

\* C13: with the blocked-authors, blocked-words and allowed-authors lists all
\* empty, whatever the keyword and language lists hold, match returns true
\* for every author and every text, called directly or by receive, so that
\* receive drops no message.
C13_EmptyListsAccept ==
    Unconstrained(mf) => (mres # "false" /\ rres # "false")

\* match was applied, both ways, under a filter with keywords and languages
\* only, to a mixed-case author and a non-empty text: both calls returned true.
C13_Witness ==
    /\ Unconstrained(mf)
    /\ Len(mf.Keywords) > 1
    /\ Len(mf.Language) > 0
    /\ mu # ToLower(mu)
    /\ Len(mc) > 0
    /\ mres = "true"
    /\ rres = "true"

IsPhoto(e) == e.Type = "photo"

\* The URLs of the "photo" entities of media, in their order in media.
PhotoURLs(media) ==
    LET photos == SelectSeq(media, IsPhoto)
    IN  [i \in 1..Len(photos) |-> photos[i].MediaURLHttps]

\* C14: the image list of the record receive builds is exactly the sequence
\* of the URLs of the message's "photo" media entities, in their original
\* order; entities of any other kind contribute nothing.
C14_PhotosInOrder ==
    mimg # << >> => mimg[1] = PhotoURLs(mm)

\* receive built the record of a message with a photo, a video and another
\* photo: its images are the two photo URLs, in that order.
C14_Witness ==
    /\ Len(mm) = 3
    /\ mm[1] = [Type |-> "photo", MediaURLHttps |-> <<"b">>]
    /\ mm[2].Type = "video"
    /\ mm[3] = [Type |-> "photo", MediaURLHttps |-> <<"a">>]
    /\ mimg = << << <<"b">>, <<"a">> >> >>

\* The loop launched for the subscription s read its channel to the end and
\* cleared the handle.
Finished(s) ==
    \E l \in LoopIds : loops[l].ch = s /\ loops[l].pc = "done"

\* C15: Start checks and sets the handle atomically with respect to other
\* Start calls: never are two launched loops live at once, and every
\* subscription that was opened is the stored handle until its loop has
\* finished.
C15_AtomicStart ==
    /\ Cardinality(LiveLoops) <= 1
    /\ \A s \in StreamIds : s # stream => Finished(s)

\* C16: Stop is safe to run concurrently with the loop's clearing of the
\* handle: it never ends with a use of the absent handle, and never sends the
\* terminate signal through a handle the loop cleared after Stop's test.
C16_StopSafe ==
    /\ panic # "Stop: nil stream"
    /\ last # StopRet("stale")

\* C17: whatever Callback stores while the loop is dispatching a message, the
\* loop never calls an absent callback, and no message is handed to a
\* callback twice.
C17_CallbackSafe ==
    /\ panic # "receive: nil cb"
    /\ \A i, j \in 1..Len(handed) :
            (handed[i].s = handed[j].s /\ handed[i].k = handed[j].k) => i = j

\* The subscription s was told to end by Stop, or its channel is closed.
Ending(s) ==
    /\ s \in StreamIds
    /\ streams[s].stopped \/ streams[s].closed

\* C18: under fair scheduling, once Stop has signalled a subscription or its
\* channel is closed, its loop eventually exits and the handle of that
\* subscription is eventually absent.
C18_EventuallyIdle ==
    \A s \in 1..MaxStreams : Ending(s) ~> (Finished(s) /\ stream # s)

\* Every run of the fair session in which the handle of an ending
\* subscription is never cleared is a run that a panic ended.
EndsOrPanics ==
    \A s \in 1..MaxStreams : Ending(s) ~> ((Finished(s) /\ stream # s) \/ panic # "none")

\* No caller thread is between the test and the return of a Start call.
NoStartInFlight == \A c \in Callers : pc[c] # "s_open"

\* C19: in every state in which no Start call is mid-execution, the handle
\* is present exactly when one launched loop has not yet cleared it: never
\* present with no live loop, and no loop live while it is absent.
C19_HandleIffLoop ==
    NoStartInFlight =>
        /\ (stream # NilStream <=> Cardinality(LiveLoops) = 1)
        /\ (stream = NilStream => LiveLoops = {})

\* Stop has returned after signalling the subscription the handle holds, and
\* its loop has not cleared the handle yet.
StoppedNotCleared ==
    /\ stream # NilStream
    /\ streams[stream].stopped

\* C20: Stop never changes the handle; a Start that tests the handle after
\* Stop has returned and before the loop has cleared it returns
\* ErrAlreadyStarted and opens nothing; a Start passes its test only when
\* every launched loop is past its clearing step, and the handle becomes
\* absent by the clearing step of a loop only.
C20_StopLeavesHandle ==
    [][ /\ \A c \in Callers : (StopCheck(c) \/ StopTerm(c)) => stream' = stream
        /\ \A c \in Callers :
            (StartCheck(c) /\ StoppedNotCleared) =>
                /\ last' = StartRet("ErrAlreadyStarted")
                /\ UNCHANGED <<pc, stream, streams, loops>>
        /\ \A c \in Callers :
            (StartCheck(c) /\ pc'[c] = "s_open") => LiveLoops = {}
        /\ (stream # NilStream /\ stream' = NilStream) =>
                \E l \in LoopIds : LoopClear(l)
      ]_vars

\* Stop returned, the channel is closed, the loop has not yet cleared the
\* handle, and the Start issued in between was rejected.
C20_Witness ==
    /\ StoppedNotCleared
    /\ streams[stream].closed
    /\ last = StartRet("ErrAlreadyStarted")
    /\ Cardinality(LiveLoops) = 1

====
